---- MODULE Spec2Model ----
(***************************************************************************)
(* Model of custom_components/volkswagencarnet/__init__.py: the config     *)
(* entry lifecycle (async_setup_entry / async_unload_entry), the           *)
(* VolkswagenCoordinator refresh cycle (_async_update_data, update,        *)
(* report_request), the entity availability flag, the unit-conversion      *)
(* configuration and the four command-service schemas.                     *)
(*                                                                         *)
(* The Home Assistant DataUpdateCoordinator base class and the             *)
(* volkswagencarnet client library are collaborators: their calls are      *)
(* suspension points whose results are chosen nondeterministically.        *)
(***************************************************************************)
EXTENDS Integers, Sequences, FiniteSets, TLC

----------------------------------------------------------------------------
\* Bounds of the model.

\* Number of config entry slots.
NumEntries == 2
\* Clock ticks per day; datetime.now() advances one tick at a time.
TicksPerDay == 2
\* Last clock tick explored.
MaxTime == 4
\* Largest configured CONF_REPORT_SCAN_INTERVAL (days).
MaxInterval == 2
\* Refresh tasks that can be outstanding on one coordinator.
MaxTasks == 2
\* Length of a vehicle identifier, in characters.
VinLen == 1
\* Vehicles on one account.
MaxVehicles == 3
\* Refresh requests counted while one refresh is outstanding.
MaxRequests == 2

Entries == 1..NumEntries
Slots == 1..MaxTasks

----------------------------------------------------------------------------
\* Values imported from .const (the module is not part of the source tree;
\* only that the names are distinct matters here).

CONF_NO_CONVERSION == "no_conversion"
CONF_IMPERIAL_UNITS == "imperial"
CONF_SCANDINAVIAN_MILES == "scandinavian_miles"
DEFAULT_UPDATE_INTERVAL == 5
DEFAULT_REPORT_UPDATE_INTERVAL == 1

SERVICE_SET_TIMER_BASIC_SETTINGS == "set_timer_basic_settings"
SERVICE_UPDATE_SCHEDULE == "update_schedule"
SERVICE_UPDATE_PROFILE == "update_profile"
SERVICE_SET_CHARGER_MAX_CURRENT == "set_charger_max_current"

AllServices ==
    { SERVICE_SET_TIMER_BASIC_SETTINGS, SERVICE_UPDATE_SCHEDULE,
      SERVICE_UPDATE_PROFILE, SERVICE_SET_CHARGER_MAX_CURRENT }

\* COMPONENTS: the platforms an instrument can be forwarded to.
Platforms == {"sensor", "switch"}

----------------------------------------------------------------------------
\* Python values.

\* An optional value: <<>> is "key absent" / None, <<v>> is v.
Opt(S) == {<<>>} \cup { <<v>> : v \in S }

\* dict.get(key, default) on a dict whose keys are the record's fields.
Get(d, k, default) == IF d[k] = <<>> THEN default ELSE d[k][1]

\* Characters of a vehicle identifier: a letter in both cases and a digit.
VinChars == {"a", "A", "1"}
Vins == [1..VinLen -> VinChars]

\* str.upper(), character by character.
UpperChar(c) == IF c = "a" THEN "A" ELSE c
Upper(s) == [i \in DOMAIN s |-> UpperChar(s[i])]

\* Two identifiers that differ at most in letter case.
SameLetter(c, d) == c = d \/ {c, d} = {"a", "A"}
EqualIgnoringCase(s, t) ==
    /\ DOMAIN s = DOMAIN t
    /\ \A i \in DOMAIN s : SameLetter(s[i], t[i])

SeqsUpTo(S, n) == UNION { [1..m -> S] : m \in 0..n }
VehicleLists == SeqsUpTo(Vins, MaxVehicles)

----------------------------------------------------------------------------
VARIABLES
    entries,      \* the config entries that exist
    config,       \* per entry: entry.data[CONF_VEHICLE], entry.options, entry.data
    account,      \* per entry: connection.vehicles as the backend reports them
    life,         \* per entry: where the entry is in its setup / unload
    coord,        \* per entry: the VolkswagenCoordinator object
    tasks,        \* per entry: the refresh tasks outstanding on the coordinator
    attached,     \* per entry: platforms whose entities listen to the coordinator
    hassData,     \* entry ids present in hass.data[DOMAIN]
    services,     \* services registered under DOMAIN
    now,          \* datetime.now(), in ticks
    hassStopped,  \* EVENT_HOMEASSISTANT_STOP has fired
    hist,         \* per entry: what the latest setup, refresh and unload did
    lastCall      \* the latest command-service call and what became of it

vars == << entries, config, account, life, coord, tasks, attached, hassData,
           services, now, hassStopped, hist, lastCall >>

----------------------------------------------------------------------------
\* Configuration of an entry.

OptionKeys == {"scan_interval", "report_request", "report_scan_interval",
               "convert", "scandinavian_miles"}
DataKeys == {"convert", "scandinavian_miles"}

NoOptions == [k \in OptionKeys |-> <<>>]
NoData == [k \in DataKeys |-> <<>>]

DefaultVin == [i \in 1..VinLen |-> "a"]
DefaultCfg == [vehicle |-> DefaultVin, options |-> NoOptions, data |-> NoData]

ConvertValues == {CONF_NO_CONVERSION, CONF_IMPERIAL_UNITS, CONF_SCANDINAVIAN_MILES}

\* Entries that differ in the report-request options only.
ReportCfgs ==
    { [DefaultCfg EXCEPT !.options.report_request = rr,
                         !.options.report_scan_interval = ri] :
        rr \in {<<TRUE>>}, ri \in Opt(0..MaxInterval) }
    \cup { [DefaultCfg EXCEPT !.options.report_request = rr] : rr \in Opt({FALSE}) }

\* Entries that differ in the scan interval only.
ScanCfgs ==
    { [DefaultCfg EXCEPT !.options.scan_interval = si] : si \in Opt({0, 1}) }

\* Entries that differ in the configured vehicle only.
VehicleCfgs == { [DefaultCfg EXCEPT !.vehicle = v] : v \in Vins }

\* Entries that differ in the unit-conversion configuration only.
ConvertCfgs ==
    { [DefaultCfg EXCEPT !.options.convert = oc, !.options.scandinavian_miles = os,
                         !.data.convert = dc, !.data.scandinavian_miles = ds] :
        oc \in Opt(ConvertValues), dc \in Opt(ConvertValues),
        os \in Opt(BOOLEAN), ds \in Opt(BOOLEAN) }

----------------------------------------------------------------------------
\* The coordinator object and the history of what it did.

LifeStates == {"not_loaded", "setup_login", "setup_refresh", "loaded",
               "unloading", "failed_unload"}
TaskStates == {"free", "fetching", "report_login", "report_request"}

\* timedelta(minutes=...) of the periodic refresh.
UpdateInterval(cfg) ==
    IF Get(cfg.options, "scan_interval", 0) # 0
    THEN cfg.options["scan_interval"][1]
    ELSE DEFAULT_UPDATE_INTERVAL

\* VolkswagenCoordinator.__init__ with DataUpdateCoordinator.__init__.
VolkswagenCoordinator(cfg, update_interval) ==
    [ vin |-> Upper(cfg.vehicle),
      platforms |-> {},
      report_last_updated |-> <<>>,
      logged_in |-> FALSE,
      last_update_success |-> TRUE,
      update_interval |-> update_interval,
      data |-> <<>>,
      timer |-> FALSE,
      stop_listener |-> FALSE ]

\* One refresh cycle: what the fetch found, what report_request did, how
\* _async_update_data ended, how many refresh requests arrived meanwhile.
PendingCycle ==
    [ fetch |-> "pending", selected |-> <<>>, report |-> "none",
      first |-> FALSE, result |-> "pending", requests |-> 0 ]
NoCycle == [PendingCycle EXCEPT !.fetch = "none", !.result = "none"]

NoHistory ==
    [ setupTrace |-> <<>>, cycle |-> NoCycle, lastResult |-> "none",
      logoutCalled |-> FALSE, unloadResult |-> "none" ]

NoCall == [service |-> "none", data |-> <<>>, outcome |-> "none"]

InitWith(cfgs, accts) ==
    /\ entries = {1}
    /\ \E c \in cfgs :
         config = [e \in Entries |-> IF e = 1 THEN c ELSE DefaultCfg]
    /\ \E a \in accts :
         account = [e \in Entries |-> IF e = 1 THEN a ELSE <<>>]
    /\ life = [e \in Entries |-> "not_loaded"]
    /\ coord = [e \in Entries |->
                  VolkswagenCoordinator(config[e], UpdateInterval(config[e]))]
    /\ tasks = [e \in Entries |-> [k \in Slots |-> "free"]]
    /\ attached = [e \in Entries |-> {}]
    /\ hassData = {}
    /\ services = {}
    /\ now = 0
    /\ hassStopped = FALSE
    /\ hist = [e \in Entries |-> NoHistory]
    /\ lastCall = NoCall

Running == ~hassStopped
Busy(e) == \E k \in Slots : tasks[e][k] # "free"
InFlight(e) == { k \in Slots : tasks[e][k] # "free" }
FreeSlot(e) ==
    CHOOSE k \in Slots :
        tasks[e][k] = "free" /\ \A j \in Slots : j < k => tasks[e][j] # "free"

----------------------------------------------------------------------------
\* Unit conversion (get_convert_conf and the dashboard call).

get_convert_conf(cfg) ==
    IF Get(cfg.options, "scandinavian_miles",
           Get(cfg.data, "scandinavian_miles", FALSE))
    THEN CONF_SCANDINAVIAN_MILES
    ELSE CONF_NO_CONVERSION

convert_conf_LegacyFirst(cfg) ==
    IF get_convert_conf(cfg) = CONF_SCANDINAVIAN_MILES
    THEN CONF_SCANDINAVIAN_MILES
    ELSE Get(cfg.options, "convert", Get(cfg.data, "convert", CONF_NO_CONVERSION))

convert_conf(cfg) ==
    Get(cfg.options, "convert", Get(cfg.data, "convert", get_convert_conf(cfg)))

\* The arguments vehicle.dashboard() is called with.
dashboard(cfg) ==
    [ miles |-> convert_conf(cfg) = CONF_IMPERIAL_UNITS,
      scandinavian_miles |-> convert_conf(cfg) = CONF_SCANDINAVIAN_MILES ]

----------------------------------------------------------------------------
\* VolkswagenCoordinator.update: the vehicle of the list the coordinator is for.

Matches_Exact(vehicleVin, coordVin) == vehicleVin = coordVin

Matches(vehicleVin, coordVin) == Upper(vehicleVin) = coordVin

\* The index of the selected vehicle in connection.vehicles, 0 for None.
update(e, fetched) ==
    IF ~fetched THEN 0
    ELSE LET hits == { i \in DOMAIN account[e] :
                         Matches(account[e][i], coord[e].vin) }
         IN IF hits = {} THEN 0
            ELSE CHOOSE i \in hits : \A j \in hits : i <= j

----------------------------------------------------------------------------
\* VolkswagenCoordinator.report_request: the elapsed-days gate.

report_interval(e) ==
    Get(config[e].options, "report_scan_interval", DEFAULT_REPORT_UPDATE_INTERVAL)

days_since_last_update(e) ==
    IF coord[e].report_last_updated = <<>>
    THEN 1
    ELSE (now - coord[e].report_last_updated[1]) \div TicksPerDay

GateCloses_OffByOne(e) == days_since_last_update(e) + 1 < report_interval(e)

GateCloses(e) == days_since_last_update(e) < report_interval(e)

\* report_last_updated after vehicle.request_report() answered r.
Stamp(e, r) == IF r = "true" THEN <<now>> ELSE coord[e].report_last_updated

\* What _async_update_data ends with when the client raised inside
\* report_request: the bare except swallows it.
AfterRaise_Propagate == "exception"

AfterRaise == "instruments"

----------------------------------------------------------------------------
\* async_setup_entry.

\* Lines 169-200: what setup does once its first refresh has ended.
SetupAfterRefresh(e, c, cyc) ==
    IF ~c.last_update_success
    THEN /\ life' = [life EXCEPT ![e] = "not_loaded"]
         /\ coord' = [coord EXCEPT ![e] = c]
         /\ hist' = [hist EXCEPT ![e].cycle = cyc,
                                 ![e].lastResult = cyc.result,
                                 ![e].setupTrace = Append(@, "not_ready")]
         /\ UNCHANGED << hassData, services >>
    ELSE \E components \in SUBSET Platforms :
         /\ coord' = [coord EXCEPT ![e] = [c EXCEPT !.platforms = components]]
         /\ hassData' = hassData \cup {e}
         /\ services' = services \cup AllServices
         /\ life' = [life EXCEPT ![e] = "loaded"]
         /\ hist' = [hist EXCEPT ![e].cycle = cyc,
                                 ![e].lastResult = cyc.result,
                                 ![e].setupTrace =
                                     @ \o <<"forward", "data", "services">>]

\* DataUpdateCoordinator: a refresh begins (the scheduled timer is cancelled).
BeginRefresh(e) ==
    /\ \E k \in Slots : tasks[e][k] = "free"
    /\ tasks' = [tasks EXCEPT ![e][FreeSlot(e)] = "fetching"]
    /\ coord' = [coord EXCEPT ![e].timer = FALSE]
    /\ hist' = [hist EXCEPT ![e].cycle =
                   IF Busy(e) THEN @ ELSE PendingCycle]

\* DataUpdateCoordinator: _async_update_data of task k ended with `result`;
\* last_update_success and data are set, the timer is scheduled again.
RefreshDone(e, k, c, cyc, result) ==
    LET ok == result = "instruments"
        c2 == [c EXCEPT !.last_update_success = ok,
                        !.data = IF ok THEN <<dashboard(config[e])>> ELSE @]
        cyc2 == [cyc EXCEPT !.result = result]
    IN /\ tasks' = [tasks EXCEPT ![e][k] = "free"]
       /\ IF life[e] = "setup_refresh"
          THEN SetupAfterRefresh(e, c2, cyc2)
          ELSE /\ coord' = [coord EXCEPT
                              ![e] = [c2 EXCEPT !.timer = attached[e] # {}]]
               /\ hist' = [hist EXCEPT ![e].cycle = cyc2,
                                       ![e].lastResult = result]
               /\ UNCHANGED << life, hassData, services >>

\* Lines 151-158 and async_login up to its await of doLogin(3).
SetupStart(e) ==
    /\ Running /\ e \in entries
    /\ life[e] = "not_loaded"
    /\ coord' = [coord EXCEPT
                   ![e] = VolkswagenCoordinator(config[e], UpdateInterval(config[e]))]
    /\ life' = [life EXCEPT ![e] = "setup_login"]
    /\ tasks' = [tasks EXCEPT ![e] = [k \in Slots |-> "free"]]
    /\ hist' = [hist EXCEPT ![e] = [NoHistory EXCEPT !.setupTrace = <<"login">>]]
    /\ UNCHANGED << entries, config, account, attached, hassData, services, now,
                    hassStopped, lastCall >>

\* Lines 158-168 with a login that is taken to have succeeded whatever
\* doLogin answered.
SetupAfterLogin_IgnoreFailure(e, ok) ==
    /\ life' = [life EXCEPT ![e] = "setup_refresh"]
    /\ tasks' = [tasks EXCEPT ![e][FreeSlot(e)] = "fetching"]
    /\ coord' = [coord EXCEPT ![e].logged_in = ok, ![e].stop_listener = TRUE]
    /\ hist' = [hist EXCEPT ![e].cycle = PendingCycle,
                            ![e].setupTrace =
                                @ \o (IF ok THEN <<>> ELSE <<"reauth">>)
                                  \o <<"refresh">>]

\* Lines 158-168: doLogin(3) has returned; connection.logged_in is `ok`.
SetupAfterLogin(e, ok) ==
    IF ~ok
    THEN /\ life' = [life EXCEPT ![e] = "not_loaded"]
         /\ hist' = [hist EXCEPT ![e].setupTrace = Append(@, "reauth")]
         /\ UNCHANGED << coord, tasks >>
    ELSE /\ life' = [life EXCEPT ![e] = "setup_refresh"]
         /\ tasks' = [tasks EXCEPT ![e][FreeSlot(e)] = "fetching"]
         /\ coord' = [coord EXCEPT ![e].logged_in = TRUE,
                                   ![e].stop_listener = TRUE]
         /\ hist' = [hist EXCEPT ![e].cycle = PendingCycle,
                                 ![e].setupTrace = Append(@, "refresh")]

SetupLoginDone(e) ==
    /\ Running /\ e \in entries
    /\ life[e] = "setup_login"
    /\ \E ok \in BOOLEAN : SetupAfterLogin(e, ok)
    /\ UNCHANGED << entries, config, account, attached, hassData, services, now,
                    hassStopped, lastCall >>

----------------------------------------------------------------------------
\* VolkswagenCoordinator._async_update_data, one step per await.

\* connection.update() has answered; update(), then report_request up to its
\* first await, or all the way to the dashboard.
FetchDone(e, k) ==
    /\ Running /\ e \in entries
    /\ tasks[e][k] = "fetching"
    /\ \E fetched \in BOOLEAN :
         LET v == update(e, fetched)
             cyc == hist[e].cycle
             found == [cyc EXCEPT !.fetch = "found",
                                  !.selected = <<account[e][v]>>]
             called == [found EXCEPT
                          !.first = coord[e].report_last_updated = <<>>]
         IN IF v = 0
            THEN RefreshDone(e, k, coord[e],
                     [cyc EXCEPT !.fetch = IF fetched THEN "no_vehicle"
                                           ELSE "failed"],
                     "update_failed")
            ELSE IF ~Get(config[e].options, "report_request", FALSE)
            THEN RefreshDone(e, k, coord[e],
                     [found EXCEPT !.report = "disabled"], "instruments")
            ELSE IF GateCloses(e)
            THEN RefreshDone(e, k, coord[e],
                     [called EXCEPT !.report = "suppressed"], "instruments")
            ELSE /\ tasks' = [tasks EXCEPT ![e][k] =
                                IF coord[e].logged_in THEN "report_request"
                                ELSE "report_login"]
                 /\ hist' = [hist EXCEPT ![e].cycle =
                                [called EXCEPT !.report =
                                    IF coord[e].logged_in THEN "requested"
                                    ELSE "login"]]
                 /\ UNCHANGED << coord, life, hassData, services >>
    /\ UNCHANGED << entries, config, account, attached, now, hassStopped, lastCall >>

\* report_request: connection.doLogin() has answered.
ReportLoginDone(e, k) ==
    /\ Running /\ e \in entries
    /\ tasks[e][k] = "report_login"
    /\ \E r \in {"ok", "fail", "raise"} :
         LET cyc == hist[e].cycle
         IN CASE r = "ok" ->
                 /\ tasks' = [tasks EXCEPT ![e][k] = "report_request"]
                 /\ coord' = [coord EXCEPT ![e].logged_in = TRUE]
                 /\ hist' = [hist EXCEPT ![e].cycle.report = "requested"]
                 /\ UNCHANGED << life, hassData, services >>
              [] r = "fail" ->
                 RefreshDone(e, k, coord[e],
                     [cyc EXCEPT !.report = "login_failed"], "instruments")
              [] r = "raise" ->
                 RefreshDone(e, k, coord[e],
                     [cyc EXCEPT !.report = "raised"], AfterRaise)
    /\ UNCHANGED << entries, config, account, attached, now, hassStopped, lastCall >>

\* report_request: vehicle.request_report() has answered.
ReportRequestDone(e, k) ==
    /\ Running /\ e \in entries
    /\ tasks[e][k] = "report_request"
    /\ \E r \in {"true", "false", "raise"} :
         LET cyc == hist[e].cycle
         IN IF r = "raise"
            THEN RefreshDone(e, k, coord[e],
                     [cyc EXCEPT !.report = "raised"], AfterRaise)
            ELSE RefreshDone(e, k,
                     [coord[e] EXCEPT !.report_last_updated = Stamp(e, r)],
                     [cyc EXCEPT !.report = IF r = "true" THEN "ok"
                                            ELSE "request_false"],
                     "instruments")
    /\ UNCHANGED << entries, config, account, attached, now, hassStopped, lastCall >>

----------------------------------------------------------------------------
\* Refresh triggers.

\* DataUpdateCoordinator.async_request_refresh: a request made while a
\* refresh is outstanding is folded into it.
async_request_refresh(e) ==
    IF Busy(e)
    THEN /\ hist' = [hist EXCEPT ![e].cycle.requests =
                        IF @ < MaxRequests THEN @ + 1 ELSE @]
         /\ UNCHANGED << tasks, coord >>
    ELSE BeginRefresh(e)

\* The callback with the coordinator refreshed directly.
update_callback_Direct(e) == BeginRefresh(e)

\* update_callback, lines 203-205.
update_callback(e) == async_request_refresh(e)

Live(e) == life[e] \in {"loaded", "unloading", "failed_unload"}

\* An instrument of an entity of the entry calls its callback.
InstrumentCallback(e) ==
    /\ Running /\ e \in entries
    /\ Live(e) /\ attached[e] # {}
    /\ update_callback(e)
    /\ UNCHANGED << entries, config, account, life, attached, hassData, services,
                    now, hassStopped, lastCall >>

\* VolkswagenEntity.async_update, lines 315-325.
EntityUpdate(e) ==
    /\ Running /\ e \in entries
    /\ Live(e) /\ attached[e] # {}
    /\ \E enabled \in BOOLEAN :
         IF ~enabled
         THEN UNCHANGED << tasks, coord, hist >>
         ELSE async_request_refresh(e)
    /\ UNCHANGED << entries, config, account, life, attached, hassData, services,
                    now, hassStopped, lastCall >>

\* The periodic timer of the coordinator fires.
TimerFire(e) ==
    /\ Running /\ e \in entries
    /\ coord[e].timer /\ ~Busy(e)
    /\ BeginRefresh(e)
    /\ UNCHANGED << entries, config, account, life, attached, hassData, services,
                    now, hassStopped, lastCall >>

\* VolkswagenEntity.async_added_to_hass for the entities of a forwarded
\* platform: they listen to the coordinator, whose first listener starts
\* the timer.
EntityAdded(e, p) ==
    /\ Running /\ e \in entries
    /\ life[e] = "loaded"
    /\ p \in coord[e].platforms \ attached[e]
    /\ attached' = [attached EXCEPT ![e] = @ \cup {p}]
    /\ coord' = [coord EXCEPT ![e].timer = IF attached[e] = {} THEN TRUE ELSE @]
    /\ UNCHANGED << entries, config, account, life, tasks, hassData, services,
                    now, hassStopped, hist, lastCall >>

\* VolkswagenEntity.available
available_Always(e) == TRUE

available(e) == coord[e].last_update_success

----------------------------------------------------------------------------
\* async_unload_entry and async_unload_coordinator.

unload_services == services \ AllServices

\* Lines 236-239: the platforms in okSet unloaded, the others did not.
Unloaded(e, okSet) ==
    LET unloaded == okSet = coord[e].platforms
    IN /\ attached' = [attached EXCEPT ![e] = @ \ okSet]
       /\ coord' = [coord EXCEPT ![e].timer = @ /\ (attached[e] \ okSet # {})]
       /\ hassData' = IF unloaded THEN hassData \ {e} ELSE hassData
       /\ life' = [life EXCEPT ![e] = IF unloaded THEN "not_loaded"
                                      ELSE "failed_unload"]
       /\ hist' = [hist EXCEPT ![e].unloadResult = IF unloaded THEN "ok"
                                                   ELSE "failed"]

UnloadStart(e) ==
    /\ Running /\ e \in entries
    /\ life[e] = "loaded"
    /\ services' = unload_services
    /\ IF coord[e].platforms = {}
       THEN Unloaded(e, {})
       ELSE /\ life' = [life EXCEPT ![e] = "unloading"]
            /\ UNCHANGED << attached, coord, hassData, hist >>
    /\ UNCHANGED << entries, config, account, tasks, now, hassStopped, lastCall >>

UnloadDone(e) ==
    /\ Running /\ e \in entries
    /\ life[e] = "unloading"
    /\ \E okSet \in SUBSET coord[e].platforms : Unloaded(e, okSet)
    /\ UNCHANGED << entries, config, account, tasks, services, now, hassStopped,
                    lastCall >>

----------------------------------------------------------------------------
\* The environment.

\* VolkswagenCoordinator.async_logout, run by EVENT_HOMEASSISTANT_STOP for
\* every coordinator that logged in; connection.logout() may raise.
HassStop ==
    /\ Running
    /\ hassStopped' = TRUE
    /\ \E raised \in SUBSET entries :
         coord' = [e \in Entries |->
                     IF coord[e].stop_listener /\ coord[e].logged_in /\ e \notin raised
                     THEN [coord[e] EXCEPT !.logged_in = FALSE]
                     ELSE coord[e]]
    /\ hist' = [e \in Entries |->
                  [hist[e] EXCEPT !.logoutCalled = @ \/ coord[e].stop_listener]]
    /\ UNCHANGED << entries, config, account, life, tasks, attached, hassData,
                    services, now, lastCall >>

\* The backend ends the session of a coordinator.
SessionExpire(e) ==
    /\ Running /\ e \in entries
    /\ coord[e].logged_in
    /\ life[e] \notin {"setup_login", "not_loaded"}
    /\ coord' = [coord EXCEPT ![e].logged_in = FALSE]
    /\ UNCHANGED << entries, config, account, life, tasks, attached, hassData,
                    services, now, hassStopped, hist, lastCall >>

Tick ==
    /\ Running
    /\ now < MaxTime
    /\ now' = now + 1
    /\ UNCHANGED << entries, config, account, life, coord, tasks, attached,
                    hassData, services, hassStopped, hist, lastCall >>

----------------------------------------------------------------------------
Lifecycle ==
    \E e \in Entries :
        \/ SetupStart(e)
        \/ SetupLoginDone(e)
        \/ UnloadStart(e)
        \/ UnloadDone(e)
        \/ \E p \in Platforms : EntityAdded(e, p)

Refresh ==
    \E e \in Entries :
        \/ TimerFire(e)
        \/ EntityUpdate(e)
        \/ InstrumentCallback(e)
        \/ \E k \in Slots : FetchDone(e, k)

Report ==
    \E e \in Entries, k \in Slots :
        \/ ReportLoginDone(e, k)
        \/ ReportRequestDone(e, k)

Environment ==
    \/ \E e \in Entries : SessionExpire(e)
    \/ Tick
    \/ HassStop

Next == Lifecycle \/ Refresh \/ Report \/ Environment

Init == InitWith(ReportCfgs \cup ScanCfgs, {<<DefaultVin>>})

Spec == Init /\ [][Next]_vars

----------------------------------------------------------------------------
\* The report-request gate.

ReportEnabled(e) == Get(config[e].options, "report_request", FALSE)

\* Task k of entry e leaves connection.update() in this step with the
\* configured vehicle found, so report_request is called if it is enabled.
ReportRequestCalled(e, k) ==
    /\ tasks[e][k] = "fetching"
    /\ tasks'[e][k] # "fetching"
    /\ hist'[e].cycle.fetch = "found"
    /\ ReportEnabled(e)

\* A request was made successfully and fewer whole days than the configured
\* interval have passed since.
WithinInterval(e) ==
    /\ coord[e].report_last_updated # <<>>
    /\ now - coord[e].report_last_updated[1] < report_interval(e) * TicksPerDay

\* C1: the first call of report_request on a coordinator (report_last_updated
\* unset) is never suppressed by the elapsed-days gate, whatever the
\* configured report interval.
C1_FirstCallNeverSuppressed ==
    \A e \in entries :
        hist[e].cycle.first => hist[e].cycle.report # "suppressed"

\* C2: once a report was requested successfully, a call of report_request
\* made fewer whole days than the configured interval after it sends no
\* request and leaves report_last_updated alone; and report_last_updated is
\* set only by a request the vehicle accepted, to the time of that answer.
C2_GateHoldsUntilIntervalElapsed ==
    [][ \A e \in entries :
          /\ \A k \in Slots :
                ReportRequestCalled(e, k) /\ WithinInterval(e)
                => /\ tasks'[e][k] = "free"
                   /\ hist'[e].cycle.report = "suppressed"
                   /\ coord'[e].report_last_updated = coord[e].report_last_updated
          /\ ( /\ coord'[e].report_last_updated # coord[e].report_last_updated
               /\ coord'[e].report_last_updated # <<>> )
             => /\ \E k \in Slots : /\ tasks[e][k] = "report_request"
                                    /\ tasks'[e][k] = "free"
                /\ hist'[e].cycle.report = "ok"
                /\ coord'[e].report_last_updated = <<now>>
      ]_vars

\* A call made after a successful request, at a later time but within the
\* interval, was suppressed.
C2_Witness ==
    \E e \in entries :
        /\ coord[e].report_last_updated # <<>>
        /\ hist[e].cycle.report = "suppressed"
        /\ ~hist[e].cycle.first
        /\ now > coord[e].report_last_updated[1]

----------------------------------------------------------------------------
\* Single flight.

\* C3: at most one _async_update_data is in flight on a coordinator, and the
\* refresh requests that arrive while it is outstanding start no fetch of
\* their own: the cycle has exactly one connection.update() outstanding.
C3_SingleFlight ==
    \A e \in entries :
        /\ Cardinality(InFlight(e)) <= 1
        /\ hist[e].cycle.requests > 0 /\ hist[e].cycle.result = "pending"
           => Cardinality(InFlight(e)) = 1

\* Several requests arrived during one outstanding refresh.
C3_Witness ==
    \E e \in entries :
        /\ hist[e].cycle.requests = MaxRequests
        /\ hist[e].cycle.result = "pending"
        /\ Cardinality(InFlight(e)) = 1
        /\ \E k \in Slots : tasks[e][k] = "fetching"

----------------------------------------------------------------------------
\* Failures of the report request.

\* C4: whenever the fetch succeeded and the configured vehicle was found,
\* _async_update_data returns the instruments, whatever report_request did
\* (re-login failed, request_report answered false, the client raised).
C4_ReportFailureNeverFailsRefresh ==
    \A e \in entries :
        hist[e].cycle.fetch = "found" /\ hist[e].cycle.result # "pending"
        => /\ hist[e].cycle.result = "instruments"
           /\ hist[e].lastResult = "instruments"
           /\ life[e] # "setup_refresh" => coord[e].last_update_success

\* The client raised inside report_request and the refresh succeeded.
C4_Witness ==
    \E e \in entries :
        /\ hist[e].cycle.fetch = "found"
        /\ hist[e].cycle.report = "raised"
        /\ hist[e].cycle.result = "instruments"

----------------------------------------------------------------------------
\* Order of setup.

SetupOrders ==
    { <<>>, <<"login">>, <<"login", "reauth">>, <<"login", "refresh">>,
      <<"login", "refresh", "not_ready">>,
      <<"login", "refresh", "forward", "data", "services">> }

\* C5: setup runs login, first refresh, platform forwarding, entry data and
\* service registration in that order. A failed login starts the
\* re-authentication flow and ends setup with no refresh, no entry data and
\* no service registered; a failed first refresh ends setup before any
\* platform is forwarded, any entry data stored or any service registered.
C5_SetupOrder ==
    \A e \in entries :
        LET t == hist[e].setupTrace
            nothingRegistered ==
                /\ e \notin hassData
                /\ services = {}
                /\ coord[e].platforms = {}
                /\ attached[e] = {}
        IN /\ t \in SetupOrders
           /\ t = <<"login", "reauth">>
              => /\ life[e] = "not_loaded"
                 /\ ~coord[e].logged_in
                 /\ ~Busy(e)
                 /\ hist[e].cycle = NoCycle
                 /\ nothingRegistered
           /\ t = <<"login", "refresh">>
              => /\ life[e] = "setup_refresh"
                 /\ nothingRegistered
           /\ t = <<"login", "refresh", "not_ready">>
              => /\ life[e] = "not_loaded"
                 /\ hist[e].lastResult # "instruments"
                 /\ nothingRegistered
           /\ life[e] = "loaded"
              => /\ t = <<"login", "refresh", "forward", "data", "services">>
                 /\ e \in hassData
                 /\ services = AllServices

\* A setup whose login failed: the re-authentication flow was started and
\* the entry is not loaded.
C5_Witness ==
    \E e \in entries :
        /\ hist[e].setupTrace = <<"login", "reauth">>
        /\ life[e] = "not_loaded"

----------------------------------------------------------------------------
\* Unload.

\* C6: once an entry has been unloaded, a logout of the coordinator's session
\* has been attempted and the four services are no longer registered.
C6_UnloadLogsOutAndRemovesServices ==
    \A e \in entries :
        hist[e].unloadResult # "none"
        => /\ hist[e].logoutCalled
           /\ services \cap AllServices = {}

----------------------------------------------------------------------------
\* Availability.

\* C8: once an entry has been set up, available equals the outcome of the latest
\* completed refresh cycle of its coordinator; after a failed cycle the timer
\* of a coordinator with listeners is scheduled again, and the refresh
\* interval is the configured one throughout.
C8_AvailableMirrorsLastRefresh ==
    \A e \in entries :
        Live(e)
        => /\ available(e) = (hist[e].lastResult = "instruments")
           /\ coord[e].update_interval = UpdateInterval(config[e])
           /\ ( /\ hist[e].lastResult # "instruments"
                /\ attached[e] # {}
                /\ ~Busy(e) )
              => coord[e].timer

\* A set-up entry whose latest refresh failed: its entities are unavailable
\* and the timer is scheduled.
C8_Witness ==
    \E e \in entries :
        /\ life[e] = "loaded"
        /\ hist[e].lastResult = "update_failed"
        /\ ~available(e)
        /\ attached[e] # {}
        /\ coord[e].timer
        /\ config[e].options["scan_interval"] = <<1>>
        /\ coord[e].update_interval = 1

----------------------------------------------------------------------------
\* Setup of one entry over a range of configurations: each behaviour sets an
\* entry up (again and again) and runs its first refresh.

NextSetup ==
    \E e \in Entries :
        \/ SetupStart(e)
        \/ SetupLoginDone(e)
        \/ \E k \in Slots : FetchDone(e, k)

----------------------------------------------------------------------------
\* Selection of the configured vehicle.

InitSelect == InitWith(VehicleCfgs, VehicleLists)

SpecSelect == InitSelect /\ [][NextSetup]_vars

\* The vehicles of the account whose identifier is the configured one up to
\* letter case.
Candidates(e) ==
    { i \in DOMAIN account[e] :
        EqualIgnoringCase(account[e][i], config[e].vehicle) }

\* C7: a refresh ends update-failed exactly when the fetch failed or no
\* vehicle of the fetched list has the configured identifier up to letter
\* case; otherwise a vehicle is selected, and the selected vehicle always has
\* the configured identifier up to letter case.
C7_SelectionIgnoresCase ==
    \A e \in entries :
        LET c == hist[e].cycle
        IN c.result \notin {"none", "pending"}
           => /\ c.result = "update_failed"
                 <=> (c.fetch = "failed" \/ Candidates(e) = {})
              /\ c.result # "update_failed" <=> c.selected # <<>>
              /\ c.selected # <<>>
                 => EqualIgnoringCase(c.selected[1], config[e].vehicle)

\* A lower-case configured identifier selected the vehicle whose identifier
\* is its upper-case form, on an account that also holds another vehicle.
C7_Witness ==
    \E e \in entries :
        /\ config[e].vehicle # Upper(config[e].vehicle)
        /\ hist[e].cycle.selected = <<Upper(config[e].vehicle)>>
        /\ hist[e].cycle.result = "instruments"
        /\ \E i \in DOMAIN account[e] :
             ~EqualIgnoringCase(account[e][i], config[e].vehicle)

----------------------------------------------------------------------------
\* Unit conversion.

InitConvert == InitWith(ConvertCfgs, {<<DefaultVin>>})

SpecConvert == InitConvert /\ [][NextSetup]_vars

\* The configured value of a key: the entry's options first, then its data.
Configured(cfg, key) ==
    IF cfg.options[key] # <<>> THEN cfg.options[key] ELSE cfg.data[key]

\* C9: the dashboard of a refresh cycle is built with the configured convert
\* value whenever one is configured, whatever the legacy flag; otherwise
\* with Scandinavian miles if the legacy flag is true; otherwise with no
\* conversion (neither miles nor scandinavian_miles is true).
C9_ConvertPrecedence ==
    \A e \in entries :
        coord[e].data # <<>>
        => LET d == coord[e].data[1]
               convert == Configured(config[e], "convert")
               legacy == Configured(config[e], "scandinavian_miles")
           IN IF convert # <<>>
              THEN /\ d.miles = (convert[1] = CONF_IMPERIAL_UNITS)
                   /\ d.scandinavian_miles = (convert[1] = CONF_SCANDINAVIAN_MILES)
              ELSE IF legacy = <<TRUE>>
              THEN d.scandinavian_miles /\ ~d.miles
              ELSE ~d.scandinavian_miles /\ ~d.miles

\* Imperial units are configured while the legacy flag is true, and the
\* dashboard was built with miles and without Scandinavian miles.
C9_Witness ==
    \E e \in entries :
        /\ Configured(config[e], "convert") = <<CONF_IMPERIAL_UNITS>>
        /\ Configured(config[e], "scandinavian_miles") = <<TRUE>>
        /\ coord[e].data = <<[miles |-> TRUE, scandinavian_miles |-> FALSE]>>

----------------------------------------------------------------------------
\* The command services and their schemas (lines 62-108).

\* vol.Length(min=32, max=32) of device_id.
DeviceIdLen == 32

DeviceIds ==
    { [i \in 1..n |-> "x"] : n \in {DeviceIdLen - 1, DeviceIdLen, DeviceIdLen + 1} }

CallKeys == {"device_id", "timer_id", "profile_id", "profile_name",
             "max_current", "min_level"}

\* The data of a service call: each key absent or holding one of a few
\* values, valid and invalid ones.
CallData ==
    { [k \in CallKeys |->
         CASE k = "device_id" -> dev
           [] k = "timer_id" -> tim
           [] k = "profile_id" -> pid
           [] k = "profile_name" -> pname
           [] k = "max_current" -> cur
           [] k = "min_level" -> lvl] :
        dev \in Opt(DeviceIds), tim \in Opt({1, 4}), pid \in Opt({1, 11}),
        pname \in Opt({"home"}), cur \in Opt({"max", "7"}),
        lvl \in Opt({50, 55}) }

\* The keys a schema marks vol.Required.
Required(service) ==
    CASE service = SERVICE_SET_TIMER_BASIC_SETTINGS -> {}
      [] service = SERVICE_SET_CHARGER_MAX_CURRENT -> {}
      [] service = SERVICE_UPDATE_SCHEDULE -> {"device_id", "timer_id"}
      [] service = SERVICE_UPDATE_PROFILE ->
            {"device_id", "profile_id", "profile_name"}

\* The keys a schema declares, among those of CallData; the others pass
\* unchecked (extra=vol.ALLOW_EXTRA).
Declared(service) ==
    CASE service = SERVICE_SET_TIMER_BASIC_SETTINGS -> {"device_id", "min_level"}
      [] service = SERVICE_SET_CHARGER_MAX_CURRENT -> {"device_id", "max_current"}
      [] service = SERVICE_UPDATE_SCHEDULE -> {"device_id", "timer_id"}
      [] service = SERVICE_UPDATE_PROFILE ->
            {"device_id", "profile_id", "profile_name"}

\* The validator of a declared key.
FieldOk(k, v) ==
    CASE k = "device_id" -> Len(v) = DeviceIdLen
      [] k = "timer_id" -> v \in {1, 2, 3}
      [] k = "profile_id" -> v >= 1 /\ v <= 10
      [] k = "profile_name" -> TRUE
      [] k = "max_current" -> v \in {"0", "5", "10", "13", "16", "32", "max"}
      [] k = "min_level" -> v \in {0, 10, 20, 30, 40, 50, 60, 70, 80, 90, 100}

Validate(service, data) ==
    /\ \A k \in Required(service) : data[k] # <<>>
    /\ \A k \in Declared(service) : data[k] # <<>> => FieldOk(k, data[k][1])

\* A call of one of the services registered by register_services: the data
\* is validated against the schema the service was registered with, and the
\* service function runs only if it is valid.
ServiceCall ==
    /\ Running
    /\ lastCall = NoCall
    /\ \E service \in AllServices, data \in CallData :
         lastCall' =
            [ service |-> service,
              data |-> data,
              outcome |-> IF service \notin services THEN "not_found"
                          ELSE IF Validate(service, data) THEN "dispatched"
                          ELSE "rejected" ]
    /\ UNCHANGED << entries, config, account, life, coord, tasks, attached,
                    hassData, services, now, hassStopped, hist >>

\* The call has returned to its caller.
ServiceReturn ==
    /\ Running
    /\ lastCall # NoCall
    /\ lastCall' = NoCall
    /\ UNCHANGED << entries, config, account, life, coord, tasks, attached,
                    hassData, services, now, hassStopped, hist >>

NextServices ==
    \/ \E e \in Entries : SetupStart(e) \/ SetupLoginDone(e)
    \/ \E e \in Entries, k \in Slots : FetchDone(e, k)
    \/ \E e \in Entries : UnloadStart(e) \/ UnloadDone(e)
    \/ ServiceCall
    \/ ServiceReturn

InitServices == InitWith({DefaultCfg}, {<<DefaultVin>>})

SpecServices == InitServices /\ [][NextServices]_vars

HasDeviceId(data) ==
    data["device_id"] # <<>> /\ Len(data["device_id"][1]) = DeviceIdLen

\* C10: set-timer-basic-settings, update-schedule and update-profile are
\* dispatched only for calls with a 32-character device_id; update-schedule
\* only with a timer_id and update-profile only with a profile_id and a
\* profile_name; set-charger-max-current is dispatched without a device_id.
C10_RequiredFieldsCheckedBeforeDispatch ==
    LET data == lastCall.data
    IN /\ lastCall.outcome = "dispatched"
          => /\ lastCall.service # SERVICE_SET_CHARGER_MAX_CURRENT
                => HasDeviceId(data)
             /\ lastCall.service = SERVICE_UPDATE_SCHEDULE
                => data["timer_id"] # <<>>
             /\ lastCall.service = SERVICE_UPDATE_PROFILE
                => data["profile_id"] # <<>> /\ data["profile_name"] # <<>>
       /\ ( /\ lastCall.service = SERVICE_SET_CHARGER_MAX_CURRENT
            /\ lastCall.outcome # "not_found"
            /\ data["device_id"] = <<>>
            /\ data["max_current"] = <<"max">> )
          => lastCall.outcome = "dispatched"

----------------------------------------------------------------------------
\* Several config entries, set up and unloaded in any interleaving.

InitMulti ==
    /\ entries = Entries
    /\ config = [e \in Entries |-> DefaultCfg]
    /\ account = [e \in Entries |-> <<DefaultVin>>]
    /\ life = [e \in Entries |-> "not_loaded"]
    /\ coord = [e \in Entries |->
                  VolkswagenCoordinator(config[e], UpdateInterval(config[e]))]
    /\ tasks = [e \in Entries |-> [k \in Slots |-> "free"]]
    /\ attached = [e \in Entries |-> {}]
    /\ hassData = {}
    /\ services = {}
    /\ now = 0
    /\ hassStopped = FALSE
    /\ hist = [e \in Entries |-> NoHistory]
    /\ lastCall = NoCall

NextMulti ==
    \E e \in Entries :
        \/ SetupStart(e)
        \/ SetupLoginDone(e)
        \/ \E k \in Slots : FetchDone(e, k)
        \/ UnloadStart(e)
        \/ UnloadDone(e)

SpecMulti == InitMulti /\ [][NextMulti]_vars

\* The entry has been set up successfully and has not been unloaded: it is
\* loaded, or its unload returned false and its data is still in hass.data.
SetUp(e) == life[e] \in {"loaded", "failed_unload"}

\* C11: in every state in which at least one config entry is set up and not
\* yet unloaded, the four command services are registered, also after the
\* unload of another entry and after an unload that returned false.
C11_ServicesWhileAnyEntrySetUp ==
    (\E e \in entries : SetUp(e)) => AllServices \subseteq services

====
